---- MODULE Spec2Model ----
(***************************************************************************)
(* A model of the calculator of src/calc.py: Lexer.tokenize (a lazy token  *)
(* generator), Parser (recursive descent with one token of lookahead) and  *)
(* Calculator (a tree-walking visitor).  One behaviour of the model is one *)
(* call Calculator().evaluate(text); the other specifications add a later  *)
(* call on the same Calculator, the function calc, and a second thread.    *)
(*                                                                         *)
(* A text is a sequence of one-character strings.  Positions are Python's: *)
(* the character at position p is text[p + 1].                             *)
(*                                                                         *)
(* Numbers are modelled by the rational they denote, with the Python type  *)
(* (int or float) kept beside it: [k, n, d] is n/d in lowest terms, d > 0. *)
(* The rounding of IEEE doubles is not modelled.                           *)
(***************************************************************************)
EXTENDS Integers, Sequences, FiniteSets, TLC

VARIABLES text, tokens, current_token, stack, ret, tree, phase, outcome,
          grouped, pulled, logger, last, prior, other

vars ==
    <<text, tokens, current_token, stack, ret, tree, phase, outcome, grouped,
      pulled, logger, last, prior, other>>

(***************************************************************************)
(* The inputs: every text of at most MaxLen characters of Alphabet, the    *)
(* three-operand chains, the table of the tests and the examples.          *)
(***************************************************************************)
MaxLen == 4

\* Two digits, the characters of the other patterns, and "." which alone
\* matches no pattern.
Alphabet == {"0", "2", ".", "+", "-", "*", "/", "(", ")", " "}

Strings(n) == UNION {[1..k -> Alphabet] : k \in 0..n}

\* The texts 'a op1 b op2 c', written without spaces and with one space
\* around each operator.
Operands == {"2", "3", "4"}

Operators == {"+", "-", "*", "/"}

Chains ==
    {<<a, o1, b, o2, c>> :
        a \in Operands, o1 \in Operators, b \in Operands,
        o2 \in Operators, c \in Operands}
    \cup
    {<<a, " ", o1, " ", b, " ", o2, " ", c>> :
        a \in Operands, o1 \in Operators, b \in Operands,
        o2 \in Operators, c \in Operands}

\* The table of src/tests.py: each text with the value the test expects.
Tests ==
    {[text |-> <<"1", "2", "7">>,
      val  |-> [n |-> 127, d |-> 1]],
     [text |-> <<"2", " ", "+", " ", "3">>,
      val  |-> [n |-> 5, d |-> 1]],
     [text |-> <<"2", " ", "-", " ", "3", " ", "-", " ", "4">>,
      val  |-> [n |-> -5, d |-> 1]],
     [text |-> <<"1", "0", " ", "*", " ", "5", " ", "/", " ", "2">>,
      val  |-> [n |-> 25, d |-> 1]],
     [text |-> <<"2", " ", "/", " ", "2", " ", "+", " ", "3", " ", "*", " ", "4", " ", "-", " ", "6">>,
      val  |-> [n |-> 7, d |-> 1]],
     [text |-> <<"2", " ", "+", " ", "3", " ", "*", " ", "4", " ", "/", " ", "3", " ", "-", " ", "6", " ", "/", " ", "3", " ", "*", " ", "3", " ", "+", " ", "8">>,
      val  |-> [n |-> 8, d |-> 1]],
     [text |-> <<"1", ".", "1", " ", "+", " ", "2", ".", "2", " ", "+", " ", "3", ".", "3">>,
      val  |-> [n |-> 33, d |-> 5]],
     [text |-> <<"1", ".", "1", " ", "*", " ", "2", ".", "2", " ", "*", " ", "3", ".", "3">>,
      val  |-> [n |-> 3993, d |-> 500]]}

\* The texts the specification gives as examples.
Examples ==
    {<<"(", "2", "+", "3", ")", "*", "4">>,
     <<"-", "2", "+", "3">>,
     <<"-", "2", "*", "3">>,
     <<"2", "-", "-", "3">>,
     <<"2", " ", "-", " ", "-", "3">>,
     <<"-", " ", "5">>,
     <<"-", "5">>,
     <<"2", " ", "-", " ", "-", " ", "3">>,
     <<"-", " ", " ", "(", "2", ")">>,
     <<"1", "0", "/", "4">>,
     <<"2", " ", "+", " ", "@">>,
     <<"(", "2", " ", "+", " ", "3">>,
     <<"2", " ", "+">>,
     <<"1", "/", "0">>,
     <<"1", "/", "0", ".", "0">>,
     <<"1", "/", "(", "2", "-", "2", ")">>,
     <<"1", "2", ".", "5">>,
     <<"1", ".", "5">>,
     <<"2", " ", "3", " ", "@">>,
     <<"(", " ", "2", " ", "+", " ", "3", " ", ")", " ", "*", " ", "4">>,
     <<"2", "*", "(", "3", "+", "4", ")">>,
     <<"-", "(", "2", "+", "3", ")", "*", "4">>}

(***************************************************************************)
(* Characters                                                              *)
(***************************************************************************)
DigitChars == <<"0", "1", "2", "3", "4", "5", "6", "7", "8", "9">>

Digits == {DigitChars[i] : i \in 1..10}

SpaceChars == {" ", "\t", "\n", "\r", "\f"}

DigitVal(c) == (CHOOSE i \in 1..10 : DigitChars[i] = c) - 1

RECURSIVE RunEnd(_, _, _)
RunEnd(t, p, S) ==
    IF p < Len(t) /\ t[p + 1] \in S THEN RunEnd(t, p + 1, S) ELSE p

(***************************************************************************)
(* Numbers                                                                 *)
(***************************************************************************)
Abs(x) == IF x < 0 THEN -x ELSE x

RECURSIVE GCD(_, _)
GCD(a, b) == IF b = 0 THEN a ELSE GCD(b, a % b)

Num(k, n, d) ==
    LET g == GCD(Abs(n), d)
    IN  [k |-> k, n |-> n \div g, d |-> d \div g]

Promote(x, y) == IF x.k = "int" /\ y.k = "int" THEN "int" ELSE "float"

RECURSIVE DecValue(_)
DecValue(s) ==
    IF s = <<>> THEN 0
    ELSE 10 * DecValue(SubSeq(s, 1, Len(s) - 1)) + DigitVal(s[Len(s)])

RECURSIVE Pow10(_)
Pow10(e) == IF e = 0 THEN 1 ELSE 10 * Pow10(e - 1)

int(s) == Num("int", DecValue(s), 1)

float(s) ==
    LET dot  == CHOOSE i \in 1..Len(s) : s[i] = "."
        frac == SubSeq(s, dot + 1, Len(s))
    IN  Num("float", DecValue(SubSeq(s, 1, dot - 1) \o frac), Pow10(Len(frac)))

(***************************************************************************)
(* Tokens and the lexer                                                    *)
(***************************************************************************)
Token(name, value) == [name |-> name, value |-> value]

\* Token('EOF', None): no pattern matches the empty text, so the empty
\* sequence stands for None.
EOF == Token("EOF", <<>>)

\* The list of lexemes with INTEGER listed before FLOAT.
lexemes_integer_first ==
    <<"INTEGER", "FLOAT", "PLUS", "MINUS", "WHITESPACE",
      "LPAREN", "RPAREN", "MUL", "DIV">>

lexemes ==
    <<"FLOAT", "INTEGER", "PLUS", "MINUS", "WHITESPACE",
      "LPAREN", "RPAREN", "MUL", "DIV">>

Literal(name) ==
    CASE name = "PLUS"   -> "+"
      [] name = "MINUS"  -> "-"
      [] name = "LPAREN" -> "("
      [] name = "RPAREN" -> ")"
      [] name = "MUL"    -> "*"
      [] name = "DIV"    -> "/"

\* The end of the match of one lexeme's pattern at position p of t, or -1.
MatchEnd(name, t, p) ==
    CASE name = "FLOAT" ->
            IF /\ p + 2 < Len(t)
               /\ t[p + 1] \in Digits
               /\ t[p + 2] = "."
               /\ t[p + 3] \in Digits
            THEN RunEnd(t, p + 2, Digits) ELSE -1
      [] name = "INTEGER" ->
            IF p < Len(t) /\ t[p + 1] \in Digits
            THEN RunEnd(t, p, Digits) ELSE -1
      [] name = "WHITESPACE" ->
            IF p < Len(t) /\ t[p + 1] \in SpaceChars
            THEN RunEnd(t, p, SpaceChars) ELSE -1
      [] OTHER ->
            IF p < Len(t) /\ t[p + 1] = Literal(name) THEN p + 1 ELSE -1

\* re.compile(token_re).match(text, pos): the first alternative that matches.
Match(t, p) ==
    LET hits == {i \in 1..Len(lexemes) : MatchEnd(lexemes[i], t, p) >= 0}
    IN  IF hits = {} THEN [found |-> FALSE]
        ELSE LET i == CHOOSE j \in hits : \A h \in hits : j <= h
             IN  [found |-> TRUE,
                  lastgroup |-> lexemes[i],
                  end |-> MatchEnd(lexemes[i], t, p)]

\* Lexer.tokenize(text): the generator before its first next().
tokenize == [pos |-> 0, done |-> FALSE]

\* tokenize without the check after its loop: the generator ends normally
\* wherever the cursor stops.
Next_token_unchecked(t, g) ==
    IF g.done THEN [kind |-> "stop", gen |-> g]
    ELSE LET m == Match(t, g.pos)
         IN  IF m.found
             THEN [kind  |-> "yield",
                   token |-> Token(m.lastgroup, SubSeq(t, g.pos + 1, m.end)),
                   gen   |-> [pos |-> m.end, done |-> FALSE]]
             ELSE [kind |-> "stop",
                   gen  |-> [pos |-> g.pos, done |-> TRUE]]

\* next(self.tokens) on generator g over text t: a token is yielded, or the
\* generator ends (StopIteration), or it raises TokenizerException.
Next_token(t, g) ==
    IF g.done THEN [kind |-> "stop", gen |-> g]
    ELSE LET m == Match(t, g.pos)
         IN  IF m.found
             THEN [kind  |-> "yield",
                   token |-> Token(m.lastgroup, SubSeq(t, g.pos + 1, m.end)),
                   gen   |-> [pos |-> m.end, done |-> FALSE]]
             ELSE [kind |-> IF g.pos # Len(t) THEN "raise" ELSE "stop",
                   gen  |-> [pos |-> g.pos, done |-> TRUE]]

(***************************************************************************)
(* The abstract syntax tree                                                *)
(***************************************************************************)
None == [type |-> "None"]

Number(token, factory) ==
    [type  |-> "Number",
     token |-> token,
     value |-> IF factory = "float" THEN float(token.value) ELSE int(token.value)]

BinOp(left, op, right) ==
    [type |-> "BinOp", left |-> left, op |-> op, right |-> right]

UnaryOp(op, expr) == [type |-> "UnaryOp", op |-> op, expr |-> expr]

(***************************************************************************)
(* Calculator: the visitor.  A visit gives [exc, value]: exc is "none" and *)
(* value the number returned, or exc names the exception raised.           *)
(***************************************************************************)
Returned(v) == [exc |-> "none", value |-> v]

Raised(e) == [exc |-> e, value |-> None]

\* operators with a division that gives infinity for a zero divisor.
operators_inf(name, x, y) ==
    CASE name = "PLUS"  ->
            Returned(Num(Promote(x, y), x.n * y.d + y.n * x.d, x.d * y.d))
      [] name = "MINUS" ->
            Returned(Num(Promote(x, y), x.n * y.d - y.n * x.d, x.d * y.d))
      [] name = "MUL"   ->
            Returned(Num(Promote(x, y), x.n * y.n, x.d * y.d))
      [] name = "DIV"   ->
            IF y.n = 0 THEN Returned([k |-> "float", n |-> 1, d |-> 0])
            ELSE Returned(Num("float",
                              (IF y.n < 0 THEN -1 ELSE 1) * x.n * y.d,
                              x.d * Abs(y.n)))

\* operators with 'DIV' : lambda x,y: x//y, the floor of the quotient.
operators_floordiv(name, x, y) ==
    CASE name = "PLUS"  ->
            Returned(Num(Promote(x, y), x.n * y.d + y.n * x.d, x.d * y.d))
      [] name = "MINUS" ->
            Returned(Num(Promote(x, y), x.n * y.d - y.n * x.d, x.d * y.d))
      [] name = "MUL"   ->
            Returned(Num(Promote(x, y), x.n * y.n, x.d * y.d))
      [] name = "DIV"   ->
            IF y.n = 0 THEN Raised("ZeroDivisionError")
            ELSE Returned(Num(Promote(x, y),
                              ((IF y.n < 0 THEN -1 ELSE 1) * x.n * y.d)
                                  \div (x.d * Abs(y.n)),
                              1))

\* The dictionary `operators` of visit_BinOp, applied: x/y raises
\* ZeroDivisionError for a zero divisor (int or float) and is a float
\* otherwise; the other three keep int for two ints.
operators(name, x, y) ==
    CASE name = "PLUS"  ->
            Returned(Num(Promote(x, y), x.n * y.d + y.n * x.d, x.d * y.d))
      [] name = "MINUS" ->
            Returned(Num(Promote(x, y), x.n * y.d - y.n * x.d, x.d * y.d))
      [] name = "MUL"   ->
            Returned(Num(Promote(x, y), x.n * y.n, x.d * y.d))
      [] name = "DIV"   ->
            IF y.n = 0 THEN Raised("ZeroDivisionError")
            ELSE Returned(Num("float",
                              (IF y.n < 0 THEN -1 ELSE 1) * x.n * y.d,
                              x.d * Abs(y.n)))

RECURSIVE visit(_)

visit_Number(node) == Returned(node.value)

\* visit_BinOp with the operands passed to f in the wrong order.
visit_BinOp_swapped(node) ==
    LET l == visit(node.left)
    IN  IF l.exc # "none" THEN l
        ELSE LET r == visit(node.right)
             IN  IF r.exc # "none" THEN r
                 ELSE operators(node.op.name, r.value, l.value)

visit_BinOp(node) ==
    LET l == visit(node.left)
    IN  IF l.exc # "none" THEN l
        ELSE LET r == visit(node.right)
             IN  IF r.exc # "none" THEN r
                 ELSE operators(node.op.name, l.value, r.value)

visit_UnaryOp(node) ==
    LET v == visit(node.expr)
    IN  IF v.exc # "none" THEN v
        ELSE Returned([v.value EXCEPT !.n = -v.value.n])

visit(node) ==
    CASE node.type = "Number"  -> visit_Number(node)
      [] node.type = "BinOp"   -> visit_BinOp(node)
      [] node.type = "UnaryOp" -> visit_UnaryOp(node)

(***************************************************************************)
(* add_logger (src/utils.py): every decorated method of Parser runs with   *)
(* the global `logger` of the module set to its own child logger.  A       *)
(* logger is modelled by its name, a sequence of strings; sentinel stands  *)
(* for a module that has no global `logger`.                               *)
(***************************************************************************)
\* logger = get_logger(__name__), the global of module calc.
get_logger == <<"calc">>

\* logging.getLogger(f.__module__).getChild(f.__qualname__)
getChild(name) == <<"calc", "Parser", name>>

sentinel == <<>>

\* wrapped without try/finally: the restoring is skipped when f raises.
finally_unless_raised(logger_o, lg, exc) ==
    IF exc # "none" THEN lg
    ELSE IF logger_o = sentinel THEN sentinel ELSE logger_o

\* The finally clause of wrapped: the value of globs['logger'] after it,
\* from the value saved (logger_o), the value found (lg) and the exception
\* in flight ("none" when f returned).
finally(logger_o, lg, exc) ==
    IF logger_o = sentinel THEN sentinel ELSE logger_o

(***************************************************************************)
(* Parser: the lookahead and the generator, threaded through eat.  A       *)
(* parser state ps is [cur, gen, exc, by, logger, pulled]: the lookahead,  *)
(* the generator, the exception raised so far ("none" if none) with the    *)
(* function that raised it, the global `logger`, and the history of the    *)
(* values given to the lookahead.  Once an exception is raised nothing     *)
(* more is done.                                                           *)
(***************************************************************************)
NoToken == Token("None", <<>>)

Here ==
    [cur |-> current_token, gen |-> tokens, exc |-> "none", by |-> "none",
     logger |-> logger, pulled |-> pulled]

\* wrapped up to its call of f, and from the end of f (r is the state f
\* left, ps the state wrapped was called in).
wrapped_call(ps, name) == [ps EXCEPT !.logger = getChild(name)]

wrapped_exit(ps, r) ==
    [r EXCEPT !.logger = finally(ps.logger, r.logger, r.exc)]

\* self.current_token = token
Assign(ps, token, gen) ==
    [ps EXCEPT !.cur = token, !.gen = gen, !.pulled = Append(@, token)]

\* eat with `except Exception` in place of `except StopIteration`: the
\* generator's TokenizerException is taken for the end of the tokens.
eat_catching_all(ps, token_type) ==
    IF ps.exc # "none" THEN ps
    ELSE LET q == wrapped_call(ps, "eat")
             r == Next_token(text, q.gen)
         IN  wrapped_exit(ps,
                IF q.cur.name = token_type
                THEN IF r.kind = "yield" THEN Assign(q, r.token, r.gen)
                     ELSE Assign(q, EOF, r.gen)
                ELSE [q EXCEPT !.exc = "SyntaxError", !.by = "eat"])

\* eat pulling the next token before it looks at the kind of the lookahead.
eat_pulling_first(ps, token_type) ==
    IF ps.exc # "none" THEN ps
    ELSE LET q == wrapped_call(ps, "eat")
             r == Next_token(text, q.gen)
         IN  wrapped_exit(ps,
                IF q.cur.name = token_type
                THEN CASE r.kind = "yield" -> Assign(q, r.token, r.gen)
                       [] r.kind = "stop"  -> Assign(q, EOF, r.gen)
                       [] r.kind = "raise" ->
                            [q EXCEPT !.gen = r.gen,
                                      !.exc = "TokenizerException",
                                      !.by  = "tokenize"]
                ELSE [q EXCEPT !.gen = r.gen,
                               !.exc = "SyntaxError", !.by = "eat"])

\* eat pulling two tokens after whitespace: the first of them is dropped.
eat_dropping(ps, token_type) ==
    IF ps.exc # "none" THEN ps
    ELSE LET q == wrapped_call(ps, "eat")
             r == Next_token(text, q.gen)
             n == IF token_type = "WHITESPACE" /\ r.kind = "yield"
                  THEN Next_token(text, r.gen) ELSE r
         IN  wrapped_exit(ps,
                IF q.cur.name = token_type
                THEN CASE n.kind = "yield" -> Assign(q, n.token, n.gen)
                       [] n.kind = "stop"  -> Assign(q, EOF, n.gen)
                       [] n.kind = "raise" ->
                            [q EXCEPT !.gen = n.gen,
                                      !.exc = "TokenizerException",
                                      !.by  = "tokenize"]
                ELSE [q EXCEPT !.exc = "SyntaxError", !.by = "eat"])

eat(ps, token_type) ==
    IF ps.exc # "none" THEN ps
    ELSE LET q == wrapped_call(ps, "eat")
             r == Next_token(text, q.gen)
         IN  wrapped_exit(ps,
                IF q.cur.name = token_type
                THEN CASE r.kind = "yield" -> Assign(q, r.token, r.gen)
                       [] r.kind = "stop"  -> Assign(q, EOF, r.gen)
                       [] r.kind = "raise" ->
                            [q EXCEPT !.gen = r.gen,
                                      !.exc = "TokenizerException",
                                      !.by  = "tokenize"]
                ELSE [q EXCEPT !.exc = "SyntaxError", !.by = "eat"])

RECURSIVE eat_whitespace(_)
eat_whitespace(ps) ==
    IF ps.exc = "none" /\ ps.cur.name = "WHITESPACE"
    THEN eat_whitespace(eat(ps, "WHITESPACE"))
    ELSE ps

\* match_addop and match_multop are decorated too: they set `logger` and
\* restore it before they return, and change nothing else.
match_addop(ps) == ps.cur.name \in {"PLUS", "MINUS"}

match_multop(ps) == ps.cur.name \in {"MUL", "DIV"}

(***************************************************************************)
(* The call stack of the recursive descent.  A frame is one activation of  *)
(* parse_expr, parse_term, parse_binop or parse_factor: pc is the place it *)
(* resumes at, node its `node` (for parse_binop: `left`), token its        *)
(* `token` (for parse_binop: `op`), cb the right_callback of parse_binop,  *)
(* logger_o the `logger_o` of the wrapped that called it.                  *)
(* The last frame of the stack is the running one; ret is the value the    *)
(* last finished call returned.  grouped is a history variable: the nodes  *)
(* that parse_factor got from an expression in parentheses (the tree does  *)
(* not record the parentheses).                                            *)
(***************************************************************************)
Frame(fn, node, cb) ==
    [fn |-> fn, pc |-> "begin", node |-> node, token |-> NoToken, cb |-> cb,
     logger_o |-> sentinel]

Top == stack[Len(stack)]

Pop == SubSeq(stack, 1, Len(stack) - 1)

Running(fn, pcs) ==
    /\ phase = "parse"
    /\ stack # <<>>
    /\ Top.fn = fn
    /\ Top.pc \in pcs

\* The finally clauses of the wrapped of every frame, innermost first.
RECURSIVE Unwind(_, _, _)
Unwind(frames, lg, exc) ==
    IF frames = <<>> THEN lg
    ELSE Unwind(SubSeq(frames, 1, Len(frames) - 1),
                finally(frames[Len(frames)].logger_o, lg, exc), exc)

\* An exception leaves every frame: no parser function catches it, and the
\* wrapped of each restores `logger` on the way.
Raise(ps) ==
    /\ outcome' = [kind |-> ps.exc, by |-> ps.by, value |-> None]
    /\ phase' = "done"
    /\ stack' = <<>>
    /\ current_token' = ps.cur
    /\ tokens' = ps.gen
    /\ pulled' = ps.pulled
    /\ logger' = Unwind(stack, ps.logger, ps.exc)
    /\ UNCHANGED <<text, ret, tree, last, prior, other>>

\* A call of a decorated method: wrapped saves `logger` and sets it.
Call(ps, caller, callee) ==
    /\ stack' = Append(Append(Pop, caller),
                       [callee EXCEPT !.logger_o = ps.logger])
    /\ current_token' = ps.cur
    /\ tokens' = ps.gen
    /\ pulled' = ps.pulled
    /\ logger' = wrapped_call(ps, callee.fn).logger
    /\ UNCHANGED <<text, ret, tree, phase, outcome, last, prior, other>>

\* The running function returns node; when it is the parse_expr that parse
\* called, parse returns it to evaluate.
Return(ps, node) ==
    /\ stack' = Pop
    /\ ret' = node
    /\ current_token' = ps.cur
    /\ tokens' = ps.gen
    /\ pulled' = ps.pulled
    /\ logger' = finally(Top.logger_o, ps.logger, "none")
    /\ IF Len(stack) = 1
       THEN tree' = node /\ phase' = "visit"
       ELSE UNCHANGED <<tree, phase>>
    /\ UNCHANGED <<text, outcome, last, prior, other>>

Finish(ps, node) == IF ps.exc # "none" THEN Raise(ps) ELSE Return(ps, node)

(***************************************************************************)
(* The actions: Calculator.evaluate(text) from its call to its outcome.    *)
(***************************************************************************)
Inputs ==
    Strings(MaxLen) \cup Chains \cup Examples \cup {t.text : t \in Tests}

NoOutcome == [kind |-> "none", by |-> "none", value |-> None]

\* No second thread.
NoThread == [phase |-> "none"]

Init ==
    /\ text \in Inputs
    /\ tokens = tokenize
    /\ current_token = NoToken
    /\ stack = <<>>
    /\ ret = None
    /\ tree = None
    /\ phase = "start"
    /\ outcome = NoOutcome
    /\ grouped = {}
    /\ pulled = <<>>
    /\ logger = get_logger
    /\ last = "none"
    /\ prior = NoOutcome
    /\ other = NoThread

\* parse making the generator only when the Parser has none yet
\* (self.tokens = self.tokens or self.lexer.tokenize(text)).
parse_keeping_tokens ==
    /\ phase = "start"
    /\ UNCHANGED grouped
    /\ LET r  == Next_token(text, tokens)
           ps == [Here EXCEPT !.pulled = <<>>]
       IN  CASE r.kind = "yield" ->
                  /\ current_token' = r.token
                  /\ tokens' = r.gen
                  /\ pulled' = <<r.token>>
                  /\ stack' = <<[Frame("parse_expr", None, "none")
                                    EXCEPT !.logger_o = logger]>>
                  /\ logger' = wrapped_call(ps, "parse_expr").logger
                  /\ phase' = "parse"
                  /\ UNCHANGED <<text, ret, tree, outcome, last, prior, other>>
             [] r.kind = "stop" ->
                  Raise([ps EXCEPT !.gen = r.gen,
                                   !.exc = "StopIteration",
                                   !.by  = "parse"])
             [] r.kind = "raise" ->
                  Raise([ps EXCEPT !.gen = r.gen,
                                   !.exc = "TokenizerException",
                                   !.by  = "tokenize"])

\* Parser.parse up to its call of parse_expr: the generator is made and the
\* first token pulled; next() is not guarded here.
parse ==
    /\ phase = "start"
    /\ UNCHANGED grouped
    /\ LET r  == Next_token(text, tokenize)
           ps == [Here EXCEPT !.pulled = <<>>]
       IN  CASE r.kind = "yield" ->
                  /\ current_token' = r.token
                  /\ tokens' = r.gen
                  /\ pulled' = <<r.token>>
                  /\ stack' = <<[Frame("parse_expr", None, "none")
                                    EXCEPT !.logger_o = logger]>>
                  /\ logger' = wrapped_call(ps, "parse_expr").logger
                  /\ phase' = "parse"
                  /\ UNCHANGED <<text, ret, tree, outcome, last, prior, other>>
             [] r.kind = "stop" ->
                  Raise([ps EXCEPT !.gen = r.gen,
                                   !.exc = "StopIteration",
                                   !.by  = "parse"])
             [] r.kind = "raise" ->
                  Raise([ps EXCEPT !.gen = r.gen,
                                   !.exc = "TokenizerException",
                                   !.by  = "tokenize"])

parse_expr_begin ==
    /\ UNCHANGED grouped
    /\ Running("parse_expr", {"begin"})
    /\ Call(Here, [Top EXCEPT !.pc = "after_term"],
            Frame("parse_term", None, "none"))

\* parse_expr with right_callback=self.parse_expr: the right operand takes
\* every operator that follows.
parse_expr_loop_right ==
    /\ UNCHANGED grouped
    /\ Running("parse_expr", {"after_term", "after_binop"})
    /\ LET node == ret
           ps   == IF Top.pc = "after_term" THEN eat_whitespace(Here) ELSE Here
       IN  IF ps.exc = "none" /\ match_addop(ps)
           THEN Call(ps, [Top EXCEPT !.pc = "after_binop", !.node = node],
                     Frame("parse_binop", node, "parse_expr"))
           ELSE Finish(ps, node)

\* parse_expr from the return of a parse_term or parse_binop call: the
\* whitespace after the first term, then the loop on match_addop.
parse_expr_loop ==
    /\ UNCHANGED grouped
    /\ Running("parse_expr", {"after_term", "after_binop"})
    /\ LET node == ret
           ps   == IF Top.pc = "after_term" THEN eat_whitespace(Here) ELSE Here
       IN  IF ps.exc = "none" /\ match_addop(ps)
           THEN Call(ps, [Top EXCEPT !.pc = "after_binop", !.node = node],
                     Frame("parse_binop", node, "parse_term"))
           ELSE Finish(ps, node)

parse_term_begin ==
    /\ UNCHANGED grouped
    /\ Running("parse_term", {"begin"})
    /\ Call(Here, [Top EXCEPT !.pc = "after_factor"],
            Frame("parse_factor", None, "none"))

\* parse_term with right_callback=self.parse_expr: the right operand of a
\* product is a whole expression.
parse_term_loop_expr ==
    /\ UNCHANGED grouped
    /\ Running("parse_term", {"after_factor", "after_binop"})
    /\ LET node == ret
           ps   == IF Top.pc = "after_factor" THEN eat_whitespace(Here) ELSE Here
       IN  IF ps.exc = "none" /\ match_multop(ps)
           THEN Call(ps, [Top EXCEPT !.pc = "after_binop", !.node = node],
                     Frame("parse_binop", node, "parse_expr"))
           ELSE Finish(ps, node)

parse_term_loop ==
    /\ UNCHANGED grouped
    /\ Running("parse_term", {"after_factor", "after_binop"})
    /\ LET node == ret
           ps   == IF Top.pc = "after_factor" THEN eat_whitespace(Here) ELSE Here
       IN  IF ps.exc = "none" /\ match_multop(ps)
           THEN Call(ps, [Top EXCEPT !.pc = "after_binop", !.node = node],
                     Frame("parse_binop", node, "parse_factor"))
           ELSE Finish(ps, node)

\* parse_binop up to its call of right_callback.
parse_binop_begin ==
    /\ UNCHANGED grouped
    /\ Running("parse_binop", {"begin"})
    /\ LET op == current_token
           ps == eat_whitespace(eat(Here, current_token.name))
       IN  IF ps.exc # "none" THEN Raise(ps)
           ELSE Call(ps, [Top EXCEPT !.pc = "after_right", !.token = op],
                     Frame(Top.cb, None, "none"))

parse_binop_end ==
    /\ UNCHANGED grouped
    /\ Running("parse_binop", {"after_right"})
    /\ Return(Here, BinOp(Top.node, Top.token, ret))

\* parse_factor for a number: the token is eaten, then the node made.
factor_number(token, factory) ==
    LET ps == eat(Here, token.name)
    IN  IF ps.exc # "none" THEN Raise(ps)
        ELSE Finish(eat_whitespace(ps), Number(token, factory))

\* parse_factor negating a whole term: UnaryOp(token, self.parse_term()).
factor_minus_term(token) ==
    LET ps == eat(Here, token.name)
    IN  IF ps.exc # "none" THEN Raise(ps)
        ELSE Call(ps, [Top EXCEPT !.pc = "unary", !.token = token],
                  Frame("parse_term", None, "none"))

\* parse_factor eating the whitespace that follows a unary minus.
factor_minus_space(token) ==
    LET ps == eat_whitespace(eat(Here, token.name))
    IN  IF ps.exc # "none" THEN Raise(ps)
        ELSE Call(ps, [Top EXCEPT !.pc = "unary", !.token = token],
                  Frame("parse_factor", None, "none"))

\* parse_factor for a unary minus, up to its call of parse_factor: no
\* whitespace is eaten after the minus.
factor_minus(token) ==
    LET ps == eat(Here, token.name)
    IN  IF ps.exc # "none" THEN Raise(ps)
        ELSE Call(ps, [Top EXCEPT !.pc = "unary", !.token = token],
                  Frame("parse_factor", None, "none"))

\* parse_factor without the eat_whitespace after the left parenthesis.
factor_lparen_nospace(token) ==
    LET ps == eat(Here, token.name)
    IN  IF ps.exc # "none" THEN Raise(ps)
        ELSE Call(ps, [Top EXCEPT !.pc = "paren", !.token = token],
                  Frame("parse_expr", None, "none"))

\* parse_factor for a left parenthesis, up to its call of parse_expr.
factor_lparen(token) ==
    LET ps == eat_whitespace(eat(Here, token.name))
    IN  IF ps.exc # "none" THEN Raise(ps)
        ELSE Call(ps, [Top EXCEPT !.pc = "paren", !.token = token],
                  Frame("parse_expr", None, "none"))

\* parse_factor for any other token.
factor_other(token) ==
    Raise([Here EXCEPT !.exc = "SyntaxError", !.by = "parse_factor"])

\* parse_factor up to its first call of a parsing function, or to its end
\* for a number.
parse_factor_begin ==
    /\ UNCHANGED grouped
    /\ Running("parse_factor", {"begin"})
    /\ LET token == current_token
       IN  CASE token.name = "INTEGER" -> factor_number(token, "int")
             [] token.name = "FLOAT"   -> factor_number(token, "float")
             [] token.name = "MINUS"   -> factor_minus(token)
             [] token.name = "LPAREN"  -> factor_lparen(token)
             [] OTHER                  -> factor_other(token)

\* parse_factor from the return of the factor a unary minus negates.
parse_factor_unary ==
    /\ UNCHANGED grouped
    /\ Running("parse_factor", {"unary"})
    /\ Finish(eat_whitespace(Here), UnaryOp(Top.token, ret))

\* parse_factor without eat('RPAREN'): the closing parenthesis is not asked
\* for.
parse_factor_paren_unclosed ==
    /\ grouped' = grouped \cup {ret}
    /\ Running("parse_factor", {"paren"})
    /\ Finish(eat_whitespace(Here), ret)

\* parse_factor from the return of the expression in parentheses.
parse_factor_paren ==
    /\ grouped' = grouped \cup {ret}
    /\ Running("parse_factor", {"paren"})
    /\ Finish(eat_whitespace(eat(eat_whitespace(Here), "RPAREN")), ret)

\* Calculator.evaluate from the return of parse: the tree is visited.
evaluate ==
    /\ phase = "visit"
    /\ LET v == visit(tree)
       IN  outcome' = [kind  |-> IF v.exc = "none" THEN "value" ELSE v.exc,
                       by    |-> IF v.exc = "none" THEN "evaluate" ELSE "visit_BinOp",
                       value |-> v.value]
    /\ phase' = "done"
    /\ UNCHANGED <<text, tokens, current_token, stack, ret, tree, grouped,
                   pulled, logger, last, prior, other>>

Next ==
    \/ parse
    \/ parse_expr_begin
    \/ parse_expr_loop
    \/ parse_term_begin
    \/ parse_term_loop
    \/ parse_binop_begin
    \/ parse_binop_end
    \/ parse_factor_begin
    \/ parse_factor_unary
    \/ parse_factor_paren
    \/ evaluate

Spec == Init /\ [][Next]_vars

(***************************************************************************)
(* Later calls on the same Calculator, as in the two c.evaluate(...) of    *)
(* the module's main block: the Parser keeps `tokens` and `current_token`  *)
(* from one call to the next.  last is the kind of outcome of the call     *)
(* before (a history variable).  To compare, the text of a later call is   *)
(* evaluated once more by a new Calculator, as the tests do; prior keeps   *)
(* the outcome to compare with.                                            *)
(***************************************************************************)
MaxSeqLen == 2

\* The texts of the earlier calls: a value with tokens left unread, a
\* TokenizerException part-way, a SyntaxError part-way and at the end, a
\* division by zero, the empty text, a value with all tokens read.
Earlier ==
    {<<"2", " ", "3", " ", "@">>,
     <<"2", " ", "+", " ", "@">>,
     <<"/", ".">>,
     <<"(", "2", " ", "+", " ", "3">>,
     <<"1", "/", "0">>,
     <<>>,
     <<"2", " ", "+", " ", "3">>}

SeqInputs ==
    Strings(MaxSeqLen) \cup Earlier \cup Examples \cup {t.text : t \in Tests}

InitSeq ==
    /\ text \in Earlier
    /\ tokens = tokenize
    /\ current_token = NoToken
    /\ stack = <<>>
    /\ ret = None
    /\ tree = None
    /\ phase = "start"
    /\ outcome = NoOutcome
    /\ grouped = {}
    /\ pulled = <<>>
    /\ logger = get_logger
    /\ last = "none"
    /\ prior = NoOutcome
    /\ other = NoThread

\* c.evaluate(t) after an earlier call of c.evaluate has ended: the locals
\* of the new call are new, the attributes of c.parser are as they were.
evaluate_again ==
    /\ phase = "done"
    /\ prior = NoOutcome
    /\ text \in Earlier
    /\ \E t \in SeqInputs : text' = t
    /\ last' = outcome.kind
    /\ phase' = "start"
    /\ stack' = <<>>
    /\ ret' = None
    /\ tree' = None
    /\ outcome' = NoOutcome
    /\ grouped' = {}
    /\ UNCHANGED <<tokens, current_token, pulled, logger, prior, other>>

\* Calculator().evaluate(text) for the text of the call that has ended: a
\* new Calculator with a new Parser.
evaluate_fresh ==
    /\ phase = "done"
    /\ prior = NoOutcome
    /\ last # "none"
    /\ prior' = outcome
    /\ tokens' = tokenize
    /\ current_token' = NoToken
    /\ pulled' = <<>>
    /\ phase' = "start"
    /\ stack' = <<>>
    /\ ret' = None
    /\ tree' = None
    /\ outcome' = NoOutcome
    /\ grouped' = {}
    /\ UNCHANGED <<text, logger, last, other>>

NextSeq ==
    \/ Next
    \/ evaluate_again
    \/ evaluate_fresh

SpecSeq == InitSeq /\ [][NextSeq]_vars

(***************************************************************************)
(* The function calc of the module, called on the text that                *)
(* Calculator().evaluate has just been given; prior keeps the outcome of   *)
(* evaluate to compare with.                                               *)
(***************************************************************************)
\* calc(text): the name Evaluator is bound nowhere in the module, so its
\* first statement raises NameError whatever the text.
calc ==
    /\ phase = "done"
    /\ prior = NoOutcome
    /\ prior' = outcome
    /\ outcome' = [kind |-> "NameError", by |-> "calc", value |-> None]
    /\ UNCHANGED <<text, tokens, current_token, stack, ret, tree, phase,
                   grouped, pulled, logger, last, other>>

NextCalc ==
    \/ Next
    \/ calc

SpecCalc == Init /\ [][NextCalc]_vars

(***************************************************************************)
(* Two threads, each running Calculator().evaluate on its own Calculator.  *)
(* The variables of a call hold the call of the running thread and other   *)
(* holds the call of the suspended one; the global `logger` of the module  *)
(* is the same for both.  A switch happens between two steps of the model  *)
(* (the interpreter may switch between any two bytecodes, also inside a    *)
(* step: the model has some of the interleavings, not all).                *)
(***************************************************************************)
\* The texts of the two threads, with the outcome of Calculator().evaluate
\* on each when it runs alone.
ThreadInputs ==
    {[text |-> <<"-", "2">>,
      kind |-> "value", value |-> [k |-> "int", n |-> -2, d |-> 1]],
     [text |-> <<"(", "2">>,
      kind |-> "SyntaxError", value |-> None],
     [text |-> <<"1", "/", "0">>,
      kind |-> "ZeroDivisionError", value |-> None],
     [text |-> <<"2", "@">>,
      kind |-> "TokenizerException", value |-> None]}

\* The call of the running thread.
Thread ==
    [text |-> text, tokens |-> tokens, current_token |-> current_token,
     stack |-> stack, ret |-> ret, tree |-> tree, phase |-> phase,
     outcome |-> outcome, grouped |-> grouped, pulled |-> pulled]

InitThreads ==
    /\ text \in {i.text : i \in ThreadInputs}
    /\ tokens = tokenize
    /\ current_token = NoToken
    /\ stack = <<>>
    /\ ret = None
    /\ tree = None
    /\ phase = "start"
    /\ outcome = NoOutcome
    /\ grouped = {}
    /\ pulled = <<>>
    /\ logger = get_logger
    /\ last = "none"
    /\ prior = NoOutcome
    /\ other \in {[Thread EXCEPT !.text = i.text] : i \in ThreadInputs}

\* The interpreter suspends the running thread and resumes the other one.
switch ==
    /\ other # NoThread
    /\ other.phase # "done"
    /\ text' = other.text
    /\ tokens' = other.tokens
    /\ current_token' = other.current_token
    /\ stack' = other.stack
    /\ ret' = other.ret
    /\ tree' = other.tree
    /\ phase' = other.phase
    /\ outcome' = other.outcome
    /\ grouped' = other.grouped
    /\ pulled' = other.pulled
    /\ other' = Thread
    /\ UNCHANGED <<logger, last, prior>>

NextThreads ==
    \/ Next
    \/ switch

SpecThreads == InitThreads /\ [][NextThreads]_vars

(***************************************************************************)
(* What the claims speak of.                                               *)
(*                                                                         *)
(* Scan(t, p): the tokens the generator yields from position p when it is  *)
(* driven to its end, each with the positions it covers.                   *)
(***************************************************************************)
RECURSIVE Scan(_, _)
Scan(t, p) ==
    LET r == Next_token(t, [pos |-> p, done |-> FALSE])
    IN  IF r.kind = "yield"
        THEN <<[name |-> r.token.name, from |-> p, to |-> r.gen.pos]>>
             \o Scan(t, r.gen.pos)
        ELSE <<>>

ScanEnd(t) ==
    LET s == Scan(t, 0) IN IF s = <<>> THEN 0 ELSE s[Len(s)].to

\* The cursor stops before the end of the text.
StopsEarly(t) == ScanEnd(t) # Len(t)

\* The position the lookahead token starts at: all before it is eaten.
EatenTo ==
    IF current_token.name \in {"EOF", "None"} THEN tokens.pos
    ELSE tokens.pos - Len(current_token.value)

Done == phase = "done"

Returns == Done /\ outcome.kind = "value"

Fails(e) == Done /\ outcome.kind = e

(***************************************************************************)
(* The grammar of the specification and ordinary arithmetic, by splitting  *)
(* the text at its last operator of lowest precedence outside parentheses. *)
(* A value is a rational [n, d], d > 0.  RefValue(t) is [ok |-> "value",   *)
(* v |-> the value], or "undefined" (a division by zero), or "invalid"     *)
(* (the grammar does not derive t).                                        *)
(***************************************************************************)
RECURSIVE Depth(_, _)
Depth(s, i) ==
    IF i = 0 THEN 0
    ELSE Depth(s, i - 1)
         + (IF s[i] = "(" THEN 1 ELSE IF s[i] = ")" THEN -1 ELSE 0)

Balanced(s) ==
    /\ \A i \in 1..Len(s) : Depth(s, i) >= 0
    /\ Depth(s, Len(s)) = 0

RECURSIVE StripL(_)
StripL(s) == IF s # <<>> /\ s[1] = " " THEN StripL(Tail(s)) ELSE s

RECURSIVE StripR(_)
StripR(s) ==
    IF s # <<>> /\ s[Len(s)] = " "
    THEN StripR(SubSeq(s, 1, Len(s) - 1)) ELSE s

\* An operator character at i, outside parentheses, is a binary operator
\* when the last character before it that is not a space ends an operand.
AfterOperand(s, i) ==
    LET before == StripR(SubSeq(s, 1, i - 1))
    IN  before # <<>> /\ before[Len(before)] \in Digits \cup {")"}

Cuts(s, ops) ==
    {i \in 1..Len(s) :
        s[i] \in ops /\ Depth(s, i - 1) = 0 /\ AfterOperand(s, i)}

Largest(S) == CHOOSE i \in S : \A j \in S : j <= i

Invalid == [ok |-> "invalid"]

Undefined == [ok |-> "undefined"]

Value(n, d) == [ok |-> "value", v |-> [n |-> n, d |-> d]]

Arith(op, l, r) ==
    IF l.ok = "invalid" \/ r.ok = "invalid" THEN Invalid
    ELSE IF l.ok = "undefined" \/ r.ok = "undefined" THEN Undefined
    ELSE CASE op = "+" -> Value(l.v.n * r.v.d + r.v.n * l.v.d, l.v.d * r.v.d)
           [] op = "-" -> Value(l.v.n * r.v.d - r.v.n * l.v.d, l.v.d * r.v.d)
           [] op = "*" -> Value(l.v.n * r.v.n, l.v.d * r.v.d)
           [] op = "/" -> IF r.v.n = 0 THEN Undefined
                          ELSE IF r.v.n < 0
                          THEN Value(-(l.v.n * r.v.d), l.v.d * (-r.v.n))
                          ELSE Value(l.v.n * r.v.d, l.v.d * r.v.n)

AllDigits(s) == s # <<>> /\ \A i \in 1..Len(s) : s[i] \in Digits

RefNumber(s) ==
    IF AllDigits(s) THEN Value(DecValue(s), 1)
    ELSE IF /\ Len(s) >= 3
            /\ s[1] \in Digits
            /\ s[2] = "."
            /\ AllDigits(SubSeq(s, 3, Len(s)))
    THEN Value(DecValue(<<s[1]>> \o SubSeq(s, 3, Len(s))), Pow10(Len(s) - 2))
    ELSE Invalid

RECURSIVE RefExpr(_)
RECURSIVE RefTerm(_)
RECURSIVE RefFactor(_)

RefExpr(s) ==
    LET cuts == Cuts(s, {"+", "-"})
    IN  IF cuts = {} THEN RefTerm(s)
        ELSE LET i == Largest(cuts)
             IN  Arith(s[i], RefExpr(SubSeq(s, 1, i - 1)),
                       RefTerm(StripL(SubSeq(s, i + 1, Len(s)))))

RefTerm(s) ==
    LET cuts == Cuts(s, {"*", "/"})
    IN  IF cuts = {} THEN RefFactor(s)
        ELSE LET i == Largest(cuts)
             IN  Arith(s[i], RefTerm(SubSeq(s, 1, i - 1)),
                       RefFactor(StripL(SubSeq(s, i + 1, Len(s)))))

RefFactor(s) ==
    LET t == StripR(s)
    IN  IF t = <<>> THEN Invalid
        ELSE IF t[1] = "-"
        THEN Arith("-", Value(0, 1), RefFactor(Tail(t)))
        ELSE IF /\ t[1] = "("
                /\ t[Len(t)] = ")"
                /\ \A i \in 1..(Len(t) - 1) : Depth(t, i) >= 1
        THEN RefExpr(StripL(SubSeq(t, 2, Len(t) - 1)))
        ELSE RefNumber(t)

RefValue(t) == IF Balanced(t) THEN RefExpr(t) ELSE Invalid

\* Two numbers are equal as rationals.
SameNumber(x, y) == x.n * y.d = y.n * x.d

(***************************************************************************)
(* The claims                                                              *)
(***************************************************************************)
Parsed == phase \in {"visit", "done"} /\ tree # None

IntV(n) == [k |-> "int", n |-> n, d |-> 1]

FloatV(n, d) == [k |-> "float", n |-> n, d |-> d]

\* C1: when Parser.parse returns, the whole input has been consumed: the
\* lookahead is EOF and the generator has no token left to yield.
C1_WholeInputConsumed ==
    Parsed =>
        /\ current_token = EOF
        /\ Next_token(text, tokens).kind = "stop"

\* C2: a text in which the cursor stops before the end of the text makes
\* evaluate fail with TokenizerException, and no value is returned.
C2_LexErrorAlwaysRaised ==
    Done /\ StopsEarly(text) => Fails("TokenizerException")

\* C2, amended: evaluate fails with TokenizerException exactly when the
\* generator has been driven to the position where no pattern matches (the
\* parser pulled that far); nothing is returned then.  A text whose
\* offending position lies beyond what the parser reads ends as the tokens
\* read decide.
C2_LexErrorRaisedWhenReached ==
    Done =>
        /\ (tokens.done /\ tokens.pos # Len(text)) <=> Fails("TokenizerException")
        /\ Fails("TokenizerException") =>
            /\ StopsEarly(text)
            /\ tokens.pos = ScanEnd(text)
            /\ outcome.by = "tokenize"
            /\ outcome.value = None

C2_Witness ==
    /\ Fails("TokenizerException")
    /\ text = <<"2", " ", "+", " ", "@">>
    /\ tokens.pos = 4

RECURSIVE Nodes(_)
Nodes(n) ==
    CASE n.type = "BinOp"   -> {n} \cup Nodes(n.left) \cup Nodes(n.right)
      [] n.type = "UnaryOp" -> {n} \cup Nodes(n.expr)
      [] OTHER              -> {n}

Additive(n) == n.type = "BinOp" /\ n.op.name \in {"PLUS", "MINUS"}

Multiplicative(n) == n.type = "BinOp" /\ n.op.name \in {"MUL", "DIV"}

\* The tokens of a text that are not whitespace.
Significant(t) ==
    SelectSeq(Scan(t, 0), LAMBDA k : k.name # "WHITESPACE")

Lexeme(t, k) == Token(k.name, SubSeq(t, k.from + 1, k.to))

Leaf(t, k) ==
    Number(Lexeme(t, k), IF k.name = "FLOAT" THEN "float" ELSE "int")

\* A text 'a op1 b op2 c': three numbers and two binary operators, with
\* whitespace, if any, only after a number or an operator.
Chain3(t) ==
    LET s == Significant(t)
    IN  /\ ~StopsEarly(t)
        /\ Len(s) = 5
        /\ Scan(t, 0)[1].name # "WHITESPACE"
        /\ \A i \in {1, 3, 5} : s[i].name \in {"INTEGER", "FLOAT"}
        /\ \A i \in {2, 4} : s[i].name \in {"PLUS", "MINUS", "MUL", "DIV"}

Level(name) == IF name \in {"PLUS", "MINUS"} THEN 1 ELSE 2

\* (a op1 b) op2 c
GroupedLeft(t) ==
    LET s == Significant(t)
    IN  BinOp(BinOp(Leaf(t, s[1]), Lexeme(t, s[2]), Leaf(t, s[3])),
              Lexeme(t, s[4]),
              Leaf(t, s[5]))

\* a op1 (b op2 c)
GroupedRight(t) ==
    LET s == Significant(t)
    IN  BinOp(Leaf(t, s[1]),
              Lexeme(t, s[2]),
              BinOp(Leaf(t, s[3]), Lexeme(t, s[4]), Leaf(t, s[5])))

\* C4: binary operators are left-associative: 'a op1 b op2 c' with op1 and
\* op2 of the same precedence parses to BinOp(op2, BinOp(op1, a, b), c); in
\* no tree is the right operand of a BinOp an unparenthesised BinOp of the
\* same precedence; "2 - 3 - 4" evaluates to -5.
C4_LeftAssociative ==
    /\ Done /\ Chain3(text)
            /\ Level(Significant(text)[2].name) = Level(Significant(text)[4].name)
        => tree = GroupedLeft(text)
    /\ Parsed =>
        \A n \in Nodes(tree) :
            n.type = "BinOp" /\ n.right.type = "BinOp"
                             /\ Level(n.right.op.name) = Level(n.op.name)
                => n.right \in grouped
    /\ Done /\ text = <<"2", " ", "-", " ", "3", " ", "-", " ", "4">> =>
        Returns /\ outcome.value = IntV(-5)

C4_Witness ==
    /\ Returns
    /\ text = <<"2", " ", "-", " ", "3", " ", "-", " ", "4">>
    /\ tree = GroupedLeft(text)
    /\ tree # GroupedRight(text)

\* C5: multiplication and division bind tighter than addition and
\* subtraction: in the tree parse returns, a BinOp of MUL or DIV has a BinOp
\* of PLUS or MINUS as a direct child only if that child is an expression in
\* parentheses; 'a + b * c' parses as a + (b * c), 'a * b + c' as (a * b) + c.
C5_MulDivBindTighter ==
    /\ Parsed =>
        \A n \in Nodes(tree) :
            Multiplicative(n) =>
                /\ Additive(n.left) => n.left \in grouped
                /\ Additive(n.right) => n.right \in grouped
    /\ Done /\ Chain3(text) =>
        LET s == Significant(text)
        IN  /\ Level(s[2].name) < Level(s[4].name) => tree = GroupedRight(text)
            /\ Level(s[2].name) > Level(s[4].name) => tree = GroupedLeft(text)

C5_Witness ==
    /\ Returns
    /\ text = <<"2", "+", "3", "*", "4">>
    /\ tree = GroupedRight(text)
    /\ outcome.value = IntV(14)

\* C6: unary minus binds tighter than every binary operator: the operand of
\* a UnaryOp is a number, another UnaryOp or an expression in parentheses;
\* "-2+3" is 1, "-2*3" is (-2)*3, and "2--3" and "2 - -3" are both 5.
C6_UnaryMinusBindsTightest ==
    /\ Parsed =>
        \A n \in Nodes(tree) :
            n.type = "UnaryOp" =>
                n.expr.type \in {"Number", "UnaryOp"} \/ n.expr \in grouped
    /\ Done /\ text = <<"-", "2", "+", "3">> => Returns /\ outcome.value = IntV(1)
    /\ Done /\ text = <<"-", "2", "*", "3">> =>
        /\ Returns /\ outcome.value = IntV(-6)
        /\ Multiplicative(tree) /\ tree.left.type = "UnaryOp"
    /\ Done /\ text \in {<<"2", "-", "-", "3">>, <<"2", " ", "-", " ", "-", "3">>} =>
        Returns /\ outcome.value = IntV(5)

C6_Witness ==
    /\ Returns
    /\ text = <<"2", " ", "-", " ", "-", "3">>
    /\ tree.right.type = "UnaryOp"
    /\ outcome.value = IntV(5)

\* The MINUS token i of a scan begins a factor: the token before it that is
\* not whitespace, if any, is an operator or a left parenthesis.
RECURSIVE PrevSignificant(_, _)
PrevSignificant(s, i) ==
    IF i = 1 THEN 0
    ELSE IF s[i - 1].name # "WHITESPACE" THEN i - 1
    ELSE PrevSignificant(s, i - 1)

BeginsFactor(s, i) ==
    LET j == PrevSignificant(s, i)
    IN  j = 0 \/ s[j].name \in {"PLUS", "MINUS", "MUL", "DIV", "LPAREN"}

\* A unary minus the parser has eaten is directly followed by whitespace.
SpaceAfterUnaryMinus ==
    LET s == Scan(text, 0)
    IN  \E i \in 1..(Len(s) - 1) :
            /\ s[i].name = "MINUS"
            /\ s[i + 1].name = "WHITESPACE"
            /\ BeginsFactor(s, i)
            /\ s[i].to <= EatenTo

\* C7: whitespace between a unary minus and the factor it negates is never
\* accepted: when a MINUS that the parser eats where a factor begins is
\* directly followed by WHITESPACE, evaluate fails with SyntaxError (raised
\* by parse_factor, on the whitespace); "- 5", "2 - - 3" and "-  (2)" fail
\* so, and "-5" evaluates to -5.
C7_NoSpaceAfterUnaryMinus ==
    /\ Done /\ SpaceAfterUnaryMinus =>
        /\ Fails("SyntaxError")
        /\ outcome.by = "parse_factor"
        /\ current_token.name = "WHITESPACE"
    /\ Done /\ text \in {<<"-", " ", "5">>, <<"2", " ", "-", " ", "-", " ", "3">>, <<"-", " ", " ", "(", "2", ")">>} =>
        Fails("SyntaxError")
    /\ Done /\ text = <<"-", "5">> => Returns /\ outcome.value = IntV(-5)

C7_Witness ==
    /\ Fails("SyntaxError")
    /\ text = <<"2", " ", "-", " ", "-", " ", "3">>
    /\ SpaceAfterUnaryMinus
    /\ EatenTo = 5

\* Some step of evaluate can be taken: it has not stopped short of its end.
CanStep ==
    \/ phase \in {"start", "visit"}
    \/ Running("parse_expr", {"begin", "after_term", "after_binop"})
    \/ Running("parse_term", {"begin", "after_factor", "after_binop"})
    \/ Running("parse_binop", {"begin", "after_right"})
    \/ Running("parse_factor", {"begin", "unary", "paren"})

C9_Step ==
    /\ /\ Running("parse_factor", {"begin"})
       /\ current_token.name \notin {"INTEGER", "FLOAT", "MINUS", "LPAREN"}
       => /\ phase' = "done"
          /\ outcome' = [kind |-> "SyntaxError", by |-> "parse_factor",
                         value |-> None]
    /\ /\ Running("parse_factor", {"paren"})
       /\ current_token.name \notin {"RPAREN", "WHITESPACE"}
       => /\ phase' = "done"
          /\ outcome' = [kind |-> "SyntaxError", by |-> "eat", value |-> None]

C9_Examples ==
    /\ Done /\ text = <<"(", "2", " ", "+", " ", "3">> =>
        Fails("SyntaxError") /\ outcome.by = "eat"
    /\ Done /\ text = <<"2", " ", "+">> =>
        Fails("SyntaxError") /\ outcome.by = "parse_factor"

C9_GrammarViolationsRaise == [][C9_Step]_vars /\ []C9_Examples

C9_Witness ==
    /\ Fails("SyntaxError")
    /\ outcome.by = "eat"
    /\ text = <<"(", "2", " ", "+", " ", "3">>
    /\ current_token = EOF

\* A division of the tree whose right operand evaluates to zero.
ZeroDivisor(n) ==
    /\ n.type = "BinOp"
    /\ n.op.name = "DIV"
    /\ visit(n.right).exc = "none"
    /\ visit(n.right).value.n = 0

\* C10: a division by zero (integer 0 or float 0.0, literal or computed)
\* makes evaluate fail with ZeroDivisionError; no value is returned.
C10_DivisionByZeroRaises ==
    /\ Done /\ tree # None /\ (\E n \in Nodes(tree) : ZeroDivisor(n)) =>
        Fails("ZeroDivisionError") /\ outcome.value = None
    /\ Done /\ text \in {<<"1", "/", "0">>, <<"1", "/", "0", ".", "0">>, <<"1", "/", "(", "2", "-", "2", ")">>} =>
        Fails("ZeroDivisionError")

C10_Witness ==
    /\ Fails("ZeroDivisionError")
    /\ text = <<"1", "/", "(", "2", "-", "2", ")">>
    /\ ZeroDivisor(tree)

\* C11: evaluations are independent: after any earlier calls on the same
\* Calculator (calls that returned with tokens left unread, or failed with
\* TokenizerException, SyntaxError, ZeroDivisionError or on the empty text),
\* evaluate(t) ends as Calculator().evaluate(t) does on a new Calculator:
\* the same value, or the same kind of error raised at the same place.
C11_EvaluationsIndependent ==
    Done /\ prior # NoOutcome =>
        /\ outcome.kind = prior.kind
        /\ outcome.value = prior.value
        /\ outcome.by = prior.by

C11_Witness ==
    /\ Done
    /\ prior # NoOutcome
    /\ last = "TokenizerException"
    /\ text = <<"(", "2", "+", "3", ")", "*", "4">>
    /\ outcome.kind = "value"
    /\ outcome.value = IntV(20)

BothDone == phase = "done" /\ other # NoThread /\ other.phase = "done"

Alone(t) == CHOOSE i \in ThreadInputs : i.text = t

\* C12: two threads that each run evaluate on their own Calculator share no
\* mutable state: under every interleaving each call ends as it does alone,
\* and when both have ended the global `logger` of the module is what it
\* was before they started.
C12_ThreadsShareNothing ==
    BothDone =>
        /\ outcome.kind = Alone(text).kind
        /\ outcome.value = Alone(text).value
        /\ other.outcome.kind = Alone(other.text).kind
        /\ other.outcome.value = Alone(other.text).value
        /\ logger = get_logger

\* The part of C12 about the outcomes alone.
C12_OutcomesAsAlone ==
    BothDone =>
        /\ outcome.kind = Alone(text).kind
        /\ outcome.value = Alone(text).value
        /\ other.outcome.kind = Alone(other.text).kind
        /\ other.outcome.value = Alone(other.text).value

\* The text is 'a/b' with a and b integer literals: the place of the '/'.
Slash(t) ==
    {i \in 2..(Len(t) - 1) :
        /\ t[i] = "/"
        /\ AllDigits(SubSeq(t, 1, i - 1))
        /\ AllDigits(SubSeq(t, i + 1, Len(t)))}

\* C13: division is true division: for integer literals a and b, b not
\* zero, evaluate("a/b") is a float equal to the exact quotient a/b (v with
\* v * b = a), never its floor; "10/4" gives 2.5 and "10 * 5 / 2" gives 25.
C13_TrueDivision ==
    /\ Done =>
        \A i \in Slash(text) :
            LET a == DecValue(SubSeq(text, 1, i - 1))
                b == DecValue(SubSeq(text, i + 1, Len(text)))
            IN  b # 0 =>
                    /\ Returns
                    /\ outcome.value.k = "float"
                    /\ outcome.value.n * b = a * outcome.value.d
    /\ Done /\ text = <<"1", "0", "/", "4">> =>
        Returns /\ outcome.value = FloatV(5, 2)
    /\ Done /\ text = <<"1", "0", " ", "*", " ", "5", " ", "/", " ", "2">> =>
        Returns /\ outcome.value = FloatV(25, 1)

C13_Witness ==
    /\ Returns
    /\ text = <<"1", "0", "/", "4">>
    /\ Slash(text) = {3}
    /\ outcome.value = FloatV(5, 2)

\* C14: calc(text) calculates the expression in text: it ends as
\* Calculator().evaluate(text) does, with the same value or the same kind
\* of error.
C14_CalcIsEvaluate ==
    Done /\ outcome.by = "calc" =>
        /\ outcome.kind = prior.kind
        /\ outcome.value = prior.value

\* C15: the error taxonomy is closed: for every text, the empty text, a text
\* of whitespace only and a text with leading whitespace included, evaluate
\* returns a number or fails with TokenizerException, SyntaxError or
\* ZeroDivisionError, and with nothing else.
C15_ErrorTaxonomyClosed ==
    Done =>
        \/ Returns /\ outcome.value.k \in {"int", "float"}
        \/ /\ outcome.kind \in {"TokenizerException", "SyntaxError",
                                 "ZeroDivisionError"}
           /\ outcome.value = None

\* The kinds of token.
Kinds == {lexemes[i] : i \in 1..Len(lexemes)} \cup {"EOF"}

\* The tokens of the tokenizer's sequence that start at position p (one at
\* most).
TokenAt(t, p) ==
    LET s == Scan(t, 0)
    IN  {Lexeme(t, s[i]) : i \in {j \in 1..Len(s) : s[j].from = p}}

\* C16: Parser.eat(k), for every lookahead the parser has and every kind k:
\* when the kind of the lookahead is k, the lookahead becomes the next token
\* of the tokenizer's sequence, or EOF when the sequence is exhausted, and
\* an EOF lookahead stays EOF; when the kind differs from k, eat raises
\* SyntaxError and leaves the lookahead and the tokenizer as they were.
C16_Eat ==
    current_token # NoToken =>
        \A k \in Kinds :
            LET ps == eat(Here, k)
            IN  /\ current_token.name = k /\ TokenAt(text, tokens.pos) # {} =>
                    /\ ps.exc = "none"
                    /\ ps.cur \in TokenAt(text, tokens.pos)
                    /\ ps.gen.pos = tokens.pos + Len(ps.cur.value)
                /\ current_token.name = k /\ tokens.pos = Len(text) =>
                    /\ ps.exc = "none"
                    /\ ps.cur = EOF
                    /\ ps.gen.pos = tokens.pos
                /\ current_token = EOF =>
                    /\ tokens.done
                    /\ ps.cur = EOF
                /\ current_token.name # k =>
                    /\ ps.exc = "SyntaxError"
                    /\ ps.by = "eat"
                    /\ ps.cur = current_token
                    /\ ps.gen = tokens

C16_Witness ==
    /\ Fails("SyntaxError")
    /\ outcome.by = "eat"
    /\ text = <<"(", "2">>
    /\ current_token = EOF
    /\ tokens = [pos |-> 2, done |-> TRUE]
    /\ eat(Here, "RPAREN").exc = "SyntaxError"

\* The tokens Lexer.tokenize yields for t when it is driven to its end.
Yielded(t) ==
    LET s == Scan(t, 0) IN [i \in 1..Len(s) |-> Lexeme(t, s[i])]

IsPrefix(p, q) == Len(p) <= Len(q) /\ p = SubSeq(q, 1, Len(p))

\* The lookahead has had the first tokens of the tokenizer's sequence, in
\* order and each once, followed by EOF only after the last of them; it is
\* the last value it was given, and the generator has been pulled exactly
\* as far as the lookahead.
InStep ==
    LET y == Yielded(text)
    IN  /\ \/ IsPrefix(pulled, y)
           \/ pulled = Append(y, EOF) /\ ~StopsEarly(text)
        /\ pulled # <<>> => current_token = pulled[Len(pulled)]
        /\ pulled = <<>> => current_token = NoToken
        /\ IsPrefix(pulled, y) /\ pulled # <<>> =>
                tokens.pos = Scan(text, 0)[Len(pulled)].to
        /\ pulled = <<>> => tokens.pos = 0

\* C17: during one Parser.parse call the successive values of the lookahead
\* are exactly the tokens Lexer.tokenize yields for the text, in order and
\* each once, followed only by EOF: none is skipped, read again or
\* reordered (each step only adds to the values given so far), and the
\* generator is pulled only when the lookahead takes the token pulled.
C17_LookaheadFollowsTokens ==
    /\ []InStep
    /\ [][IsPrefix(pulled, pulled')]_vars

C17_Witness ==
    /\ Returns
    /\ text = <<"2", " ", "+", " ", "3">>
    /\ Len(pulled) = 6
    /\ [i \in 1..6 |-> pulled[i].name]
         = <<"INTEGER", "WHITESPACE", "PLUS", "WHITESPACE", "INTEGER", "EOF">>

\* The tokens the generator has emitted so far in this call.
Emitted == SelectSeq(pulled, LAMBDA k : k # EOF)

RECURSIVE Concat(_)
Concat(ts) == IF ts = <<>> THEN <<>> ELSE ts[1].value \o Concat(Tail(ts))

\* C18: Lexer.tokenize makes progress and terminates.  Of the generator as
\* far as it has been driven: every token emitted has a text that is not
\* empty, the texts emitted so far make up text[0:pos], pos is at most
\* len(text) and there are at most pos tokens; its next resumption yields a
\* token and moves pos forward, or ends normally at pos = len(text), or
\* raises TokenizerException at pos < len(text).  Of the generator driven to
\* its end on the same text: the tokens are not empty, each starts where
\* the one before ends, and there are at most len(text) of them.
C18_TokenizeProgress ==
    /\ \A i \in 1..Len(Emitted) : Emitted[i].value # <<>>
    /\ Concat(Emitted) = SubSeq(text, 1, tokens.pos)
    /\ Len(Emitted) <= tokens.pos
    /\ tokens.pos <= Len(text)
    /\ LET r == Next_token(text, [tokens EXCEPT !.done = FALSE])
       IN  \/ /\ r.kind = "yield"
              /\ r.gen.pos > tokens.pos
              /\ r.gen.pos <= Len(text)
              /\ r.token.value # <<>>
              /\ ~tokens.done
           \/ r.kind = "stop" /\ tokens.pos = Len(text)
           \/ r.kind = "raise" /\ tokens.pos < Len(text)
    /\ LET s == Scan(text, 0)
       IN  /\ Len(s) <= Len(text)
           /\ \A i \in 1..Len(s) :
                /\ s[i].from = IF i = 1 THEN 0 ELSE s[i - 1].to
                /\ s[i].to > s[i].from
                /\ s[i].to <= Len(text)

C18_Witness ==
    /\ Returns
    /\ text = <<"1", ".", "1", " ", "+", " ", "2", ".", "2", " ", "+", " ", "3", ".", "3">>
    /\ tokens = [pos |-> 15, done |-> TRUE]
    /\ Len(Emitted) = 9
    /\ Concat(Emitted) = text

\* The text at position p is one digit, a dot and a digit.
FloatAt(t, p) ==
    /\ p + 3 <= Len(t)
    /\ t[p + 1] \in Digits
    /\ t[p + 2] = "."
    /\ t[p + 3] \in Digits

\* C19: a FLOAT token is emitted exactly when the text at the cursor is one
\* digit, a dot and one or more digits, and it covers that digit, the dot
\* and all the digits that follow; INTEGER is never chosen there.  "1.5" is
\* one FLOAT token; "12.5" gives INTEGER "12", then the generator stops at
\* the dot and evaluate fails with TokenizerException.
C19_FloatBeforeInteger ==
    /\ LET s == Scan(text, 0)
       IN  \A i \in 1..Len(s) :
            /\ s[i].name = "FLOAT" <=> FloatAt(text, s[i].from)
            /\ FloatAt(text, s[i].from) =>
                /\ s[i].name # "INTEGER"
                /\ s[i].to >= s[i].from + 3
                /\ \A j \in (s[i].from + 3)..s[i].to : text[j] \in Digits
                /\ s[i].to < Len(text) => text[s[i].to + 1] \notin Digits
    /\ current_token.name \in {"FLOAT", "INTEGER"} =>
        (current_token.name = "FLOAT" <=> FloatAt(text, EatenTo))
    /\ Done /\ text = <<"1", ".", "5">> =>
        /\ Returns
        /\ outcome.value = FloatV(3, 2)
        /\ pulled = <<Token("FLOAT", text), EOF>>
    /\ Done /\ text = <<"1", "2", ".", "5">> =>
        /\ Fails("TokenizerException")
        /\ pulled = <<Token("INTEGER", <<"1", "2">>)>>
        /\ tokens = [pos |-> 2, done |-> TRUE]

C19_Witness ==
    /\ Fails("TokenizerException")
    /\ text = <<"1", "2", ".", "5">>
    /\ current_token = Token("INTEGER", <<"1", "2">>)
    /\ tokens.pos = 2
    /\ ~FloatAt(text, 0)
    /\ FloatAt(text, 1)

\* C20: in one thread add_logger keeps a stack discipline on the global
\* `logger`: while the body of a decorated method runs, also after a nested
\* or recursive decorated call has returned, `logger` is that method's own
\* child logger, and each call in progress has saved the logger of its
\* caller; when the outermost call has ended, by return or by raising,
\* `logger` is what it was before the call.  eat, which runs inside a step,
\* leaves `logger` as it found it whether it returns or raises, and leaves
\* no `logger` when there was none.
C20_LoggerStackDiscipline ==
    /\ phase = "parse" => logger = getChild(Top.fn)
    /\ \A i \in 1..Len(stack) :
        stack[i].logger_o =
            IF i = 1 THEN get_logger ELSE getChild(stack[i - 1].fn)
    /\ phase # "parse" => logger = get_logger
    /\ current_token # NoToken =>
        \A k \in Kinds :
            /\ eat(Here, k).logger = logger
            /\ eat([Here EXCEPT !.logger = sentinel], k).logger = sentinel

C20_Witness ==
    /\ Fails("SyntaxError")
    /\ outcome.by = "eat"
    /\ text = <<"(", "(", "2">>
    /\ logger = get_logger
    /\ eat(Here, "RPAREN").exc = "SyntaxError"
    /\ eat(Here, "RPAREN").logger = get_logger

====
